---- MODULE Spec2Model ----
(***************************************************************************)
(* A model of the s-arena-allocator: the region list, the bump allocator,  *)
(* rewind, reset, create and destroy, and the locking around them.         *)
(*                                                                         *)
(* The repository holds two implementations of the same allocator:         *)
(*   src/src/sarena.c      error codes through out_err, a pthread mutex,   *)
(*                         reset = pop every region, then _sarena_init     *)
(*   src/include/sarena.h  NULL-only results, no mutex, reset = pop from   *)
(*                         the front until one region is left              *)
(* The variable impl ("c" or "h") says which one a behaviour runs.  Code   *)
(* that is identical in both files is modelled once.                       *)
(*                                                                         *)
(* Spec    one caller: every action is one whole public operation.         *)
(* SpecMT  NThreads callers on one arena: every action is one step of an   *)
(*         operation (lock, the steps of the body, unlock).                *)
(***************************************************************************)
EXTENDS Integers, Sequences, FiniteSets, TLC

\* Bounds of the model.
NRec == 3         \* Spec: region records (and pools) the memory provider can have outstanding
MaxCap == 2       \* largest region_cap tried; sizes tried are 0 .. MaxCap + 1
NThreads == 2     \* threads of SpecMT
NRecMT == 2       \* SpecMT: region records (and pools) the provider can have outstanding

NULL == 0

Records == 1..NRec          \* addresses malloc(sizeof(Region)) can return
Pools == 1..NRec            \* addresses malloc(total_cap) can return
Threads == 1..NThreads
Caps == 0..MaxCap
Sizes == 0..(MaxCap + 1)
SizesMT == 1..MaxCap        \* SpecMT: too large for an arena of a smaller region_cap

\* The values of sa_err, and what an uninitialised sa_err can hold.
ErrVals == {"SA_SUCCESS", "SA_INVALID_ARG", "SA_MALLOC_FAIL"}
UninitErr == ErrVals \cup {"GARBAGE"}

VARIABLES
    impl,        \* "c": src/src/sarena.c, "h": src/include/sarena.h
    arena,       \* TRUE while the struct SArena / struct sarena record is allocated
    region_cap,  \* arena->_region_cap
    head,        \* arena->_regions._head
    tail,        \* arena->_regions._tail
    count,       \* arena->_regions._count
    rewind_it,   \* arena->_rewind_it
    reg,         \* the Region records: reg[r] = [used_cap, total_cap, mem_pool, next]
    liveRec,     \* Region records malloc'ed and not freed
    livePool,    \* memory pools malloc'ed and not freed
    lock,        \* arena->_lock: 0 unlocked, 1 locked
    fault,       \* "none", or the undefined behaviour the program has executed
    th,          \* SpecMT: per thread, its position and locals
    lastOp,      \* history: the last completed operation and what it returned
    pre,         \* history: the program state when lastOp began
    carved,      \* history: per pool, the bytes returned from it since the last
                 \*          create/rewind/reset
    rw,          \* history: bookkeeping since the last rewind
    given,       \* history: the bytes <<pool, offset>> handed out since create
    overlap,     \* history: a byte was handed out twice since create
    gsizes,      \* history: the sizes of the blocks handed out since create
    reclaimed,   \* history: a rewind or reset has run since create
    denied,      \* history: the provider has answered NULL to a request since create
    heap         \* how many region records (and pools) the provider can have outstanding

progVars == <<arena, region_cap, head, tail, count, rewind_it, reg, liveRec, livePool, lock, fault>>
vars == <<impl, arena, region_cap, head, tail, count, rewind_it, reg, liveRec, livePool,
          lock, fault, th, lastOp, pre, carved, rw, given, overlap, gsizes, reclaimed,
          denied, heap>>

(***************************************************************************)
(* Regions                                                                 *)
(***************************************************************************)

\* What _region_destroy leaves in a record before freeing it; also the
\* canonical content of a record that is not allocated.
DeadReg == [used_cap |-> 0, total_cap |-> 0, mem_pool |-> NULL, next |-> NULL]

\* The program state as one value.  nm and nf count the calls to malloc and
\* free made by the operation in progress.
Mem ==
    [arena |-> arena, region_cap |-> region_cap, head |-> head, tail |-> tail,
     count |-> count, rewind_it |-> rewind_it, reg |-> reg, liveRec |-> liveRec,
     livePool |-> livePool, lock |-> lock, fault |-> fault, nm |-> 0, nf |-> 0]

\* No arena: the state before sarena_create and after sarena_destroy.
NoArena ==
    [arena |-> FALSE, region_cap |-> 0, head |-> NULL, tail |-> NULL, count |-> 0,
     rewind_it |-> NULL, reg |-> [r \in Records |-> DeadReg], liveRec |-> {},
     livePool |-> {}, lock |-> 0, fault |-> "none", nm |-> 0, nf |-> 0]

\* What the memory provider can answer to a request: NULL, or an address not in
\* use.  The program only ever compares addresses for equality, so which free
\* address it gets makes no difference to it: the provider is first-fit.  (A
\* pointer a thread still holds to a freed record is tracked by th[t].stale, so
\* that the reuse of an address cannot hide a use after free.)
FirstFit(S) == IF S = {} THEN {} ELSE {CHOOSE x \in S : \A y \in S : x <= y}
RecAnswers(m) == {NULL} \cup FirstFit((1..heap) \ m.liveRec)
PoolAnswers(m) == {NULL} \cup FirstFit((1..heap) \ m.livePool)

\* The answers <<r, p>> to the two requests of _region_alloc (the pool is not
\* requested when the record could not be had); no request, no answer to choose.
Answers(m, asked) ==
    IF asked
    THEN {a \in RecAnswers(m) \X PoolAnswers(m) : a[1] = NULL => a[2] = NULL}
    ELSE {<<NULL, NULL>>}

\* A mutation of region_alloc: the record is not freed when the pool cannot be had.
region_alloc_leak(m, total_cap, r, p) ==
    IF r = NULL
    THEN [m |-> [m EXCEPT !.nm = @ + 1], new |-> NULL]
    ELSE IF p = NULL
    THEN [m |-> [m EXCEPT !.nm = @ + 2, !.liveRec = @ \cup {r}], new |-> NULL]
    ELSE [m |-> [m EXCEPT !.nm = @ + 2,
                          !.liveRec = @ \cup {r},
                          !.livePool = @ \cup {p},
                          !.reg[r] = [used_cap |-> 0, total_cap |-> total_cap,
                                      mem_pool |-> p, next |-> NULL]],
          new |-> r]

\* _region_alloc.  r and p are the provider's answers to the two mallocs.
region_alloc(m, total_cap, r, p) ==
    IF r = NULL
    THEN [m |-> [m EXCEPT !.nm = @ + 1], new |-> NULL]
    ELSE IF p = NULL
    THEN [m |-> [m EXCEPT !.nm = @ + 2, !.nf = @ + 1], new |-> NULL]
    ELSE [m |-> [m EXCEPT !.nm = @ + 2,
                          !.liveRec = @ \cup {r},
                          !.livePool = @ \cup {p},
                          !.reg[r] = [used_cap |-> 0, total_cap |-> total_cap,
                                      mem_pool |-> p, next |-> NULL]],
          new |-> r]

\* A mutation of region_destroy: the pool of the region is not freed.
region_destroy_keeppool(m, r) ==
    [m EXCEPT !.reg[r] = DeadReg,
              !.liveRec = @ \ {r},
              !.nf = @ + 1]

\* _region_destroy
region_destroy(m, r) ==
    [m EXCEPT !.reg[r] = DeadReg,
              !.livePool = @ \ {m.reg[r].mem_pool},
              !.liveRec = @ \ {r},
              !.nf = @ + 2]

\* _region_list_init
region_list_init(m) == [m EXCEPT !.count = 0, !.head = NULL, !.tail = NULL]

\* A mutation of region_list_push_back: _count is not incremented when the
\* list is not empty.
region_list_push_back_nocount(m, total_cap, r, p) ==
    LET a == region_alloc(m, total_cap, r, p) IN
    IF a.new = NULL
    THEN [m |-> a.m, err |-> "SA_MALLOC_FAIL"]
    ELSE [m |-> IF a.m.head = NULL
                THEN [a.m EXCEPT !.head = a.new, !.tail = a.new, !.count = @ + 1]
                ELSE [a.m EXCEPT !.reg[a.m.tail].next = a.new, !.tail = a.new],
          err |-> "SA_SUCCESS"]

\* _region_list_push_back
region_list_push_back(m, total_cap, r, p) ==
    LET a == region_alloc(m, total_cap, r, p) IN
    IF a.new = NULL
    THEN [m |-> a.m, err |-> "SA_MALLOC_FAIL"]
    ELSE [m |-> IF a.m.head = NULL
                THEN [a.m EXCEPT !.head = a.new, !.tail = a.new, !.count = @ + 1]
                ELSE [a.m EXCEPT !.reg[a.m.tail].next = a.new, !.tail = a.new,
                                 !.count = @ + 1],
          err |-> "SA_SUCCESS"]

\* _region_list_pop_front
region_list_pop_front(m) ==
    IF m.head = m.tail
    THEN [region_destroy(m, m.head) EXCEPT !.head = NULL, !.tail = NULL,
                                            !.count = m.count - 1]
    ELSE [region_destroy([m EXCEPT !.head = m.reg[m.head].next], m.head)
              EXCEPT !.count = m.count - 1]

\* while(arena->_regions._count > k) _region_list_pop_front(&arena->_regions);
RECURSIVE PopWhile(_, _)
PopWhile(m, k) == IF m.count > k THEN PopWhile(region_list_pop_front(m), k) ELSE m

(***************************************************************************)
(* The arena                                                               *)
(***************************************************************************)

\* free(arena): the fields of the record are gone with it.
FreeArena(m) ==
    [m EXCEPT !.arena = FALSE, !.region_cap = 0, !.head = NULL, !.tail = NULL,
              !.count = 0, !.rewind_it = NULL, !.lock = 0, !.nf = @ + 1]

\* pthread_mutex_init(&arena->_lock, NULL).  On a mutex that is locked this is
\* undefined: the mutex comes out unlocked (the record is overwritten) or is
\* left as it was.
MutexInitOutcomes(m) == {0, m.lock}

\* _sarena_init of sarena.c.  li is the state pthread_mutex_init leaves.
sarena_init(m, cap, r, p, li) ==
    IF cap = 0
    THEN [m |-> m, err |-> "SA_INVALID_ARG"]
    ELSE LET m1 == region_list_init([m EXCEPT !.region_cap = cap, !.rewind_it = NULL])
             pb == region_list_push_back(m1, cap, r, p)
         IN  IF pb.err = "SA_SUCCESS"
             THEN [m |-> [pb.m EXCEPT !.lock = li], err |-> "SA_SUCCESS"]
             ELSE [m |-> pb.m, err |-> "SA_MALLOC_FAIL"]

\* _sarena_init of sarena.h: status 0, 1 (malloc failed) or 2 (region_cap == 0).
h_sarena_init(m, cap, r, p) ==
    IF cap = 0
    THEN [m |-> m, status |-> 2]
    ELSE LET m1 == region_list_init([m EXCEPT !.region_cap = cap, !.rewind_it = NULL])
             pb == region_list_push_back(m1, cap, r, p)
         IN  [m |-> pb.m, status |-> IF pb.err = "SA_SUCCESS" THEN 0 ELSE 1]

\* sarena_create of sarena.c.  a: malloc(sizeof(SArena)) succeeded.
sarena_create(m, cap, a, r, p, li) ==
    IF ~a
    THEN [m |-> [m EXCEPT !.nm = @ + 1], ok |-> FALSE, err |-> "SA_MALLOC_FAIL"]
    ELSE LET i == sarena_init([m EXCEPT !.arena = TRUE, !.nm = @ + 1], cap, r, p, li)
         IN  IF i.err # "SA_SUCCESS"
             THEN [m |-> FreeArena(i.m), ok |-> FALSE, err |-> i.err]
             ELSE [m |-> i.m, ok |-> TRUE, err |-> i.err]

\* sarena_create of sarena.h: the caller gets the pointer only.
h_sarena_create(m, cap, a, r, p) ==
    IF ~a
    THEN [m |-> [m EXCEPT !.nm = @ + 1], ok |-> FALSE, err |-> "NONE"]
    ELSE LET i == h_sarena_init([m EXCEPT !.arena = TRUE, !.nm = @ + 1], cap, r, p)
         IN  IF i.status # 0
             THEN [m |-> FreeArena(i.m), ok |-> FALSE, err |-> "NONE"]
             ELSE [m |-> i.m, ok |-> TRUE, err |-> "NONE"]

\* sarena_destroy (both files; pthread_mutex_destroy in sarena.c only)
sarena_destroy(m) == FreeArena(PopWhile(m, 0))

NullAddr == [pool |-> NULL, off |-> 0]

\* size > curr_region_cap, where curr_region_cap = _total_cap - _used_cap in
\* size_t: were _used_cap above _total_cap the difference would wrap to a value
\* above every size, and the test would be false.
NotEnough(size, region) ==
    /\ region.used_cap <= region.total_cap
    /\ size > region.total_cap - region.used_cap

\* A mutation of sarena_malloc_select: the size is not checked against region_cap.
sarena_malloc_select_nocapcheck(m, size, r, p) ==
    IF size = 0
    THEN [m |-> m, st |-> "SA_INVALID_ARG", cur |-> NULL]
    ELSE LET curr == IF m.rewind_it = NULL THEN m.tail ELSE m.rewind_it IN
         IF curr = NULL
         THEN [m |-> [m EXCEPT !.fault = "null_deref"], st |-> "fault", cur |-> NULL]
         ELSE IF NotEnough(size, m.reg[curr])
         THEN IF m.rewind_it = NULL
              THEN LET pb == region_list_push_back(m, m.region_cap, r, p) IN
                   IF pb.err # "SA_SUCCESS"
                   THEN [m |-> pb.m, st |-> "SA_MALLOC_FAIL", cur |-> NULL]
                   ELSE [m |-> pb.m, st |-> "carve", cur |-> pb.m.reg[curr].next]
              ELSE LET nx == m.reg[m.rewind_it].next
                       m1 == [m EXCEPT !.rewind_it = IF nx = m.tail THEN NULL ELSE nx]
                   IN  [m |-> m1, st |-> "carve", cur |-> m1.reg[curr].next]
         ELSE [m |-> m, st |-> "carve", cur |-> curr]

\* A mutation of sarena_malloc_select: a full region always makes the list grow,
\* in rewind mode too (the region is linked in after the tail, the cursor moves on).
sarena_malloc_select_alwayspush(m, size, r, p) ==
    IF (size > m.region_cap) \/ (size = 0)
    THEN [m |-> m, st |-> "SA_INVALID_ARG", cur |-> NULL]
    ELSE LET curr == IF m.rewind_it = NULL THEN m.tail ELSE m.rewind_it IN
         IF curr = NULL
         THEN [m |-> [m EXCEPT !.fault = "null_deref"], st |-> "fault", cur |-> NULL]
         ELSE IF NotEnough(size, m.reg[curr])
         THEN LET pb == region_list_push_back(m, m.region_cap, r, p) IN
              IF pb.err # "SA_SUCCESS"
              THEN [m |-> pb.m, st |-> "SA_MALLOC_FAIL", cur |-> NULL]
              ELSE LET nx == pb.m.reg[curr].next
                       m1 == IF m.rewind_it = NULL THEN pb.m
                             ELSE [pb.m EXCEPT !.rewind_it =
                                                  IF nx = pb.m.tail THEN NULL ELSE nx]
                   IN  [m |-> m1, st |-> "carve", cur |-> nx]
         ELSE [m |-> m, st |-> "carve", cur |-> curr]

\* A mutation of sarena_malloc_select: the cursor is not cleared when the
\* advance reaches the tail.
sarena_malloc_select_noclear(m, size, r, p) ==
    IF (size > m.region_cap) \/ (size = 0)
    THEN [m |-> m, st |-> "SA_INVALID_ARG", cur |-> NULL]
    ELSE LET curr == IF m.rewind_it = NULL THEN m.tail ELSE m.rewind_it IN
         IF curr = NULL
         THEN [m |-> [m EXCEPT !.fault = "null_deref"], st |-> "fault", cur |-> NULL]
         ELSE IF NotEnough(size, m.reg[curr])
         THEN IF m.rewind_it = NULL
              THEN LET pb == region_list_push_back(m, m.region_cap, r, p) IN
                   IF pb.err # "SA_SUCCESS"
                   THEN [m |-> pb.m, st |-> "SA_MALLOC_FAIL", cur |-> NULL]
                   ELSE [m |-> pb.m, st |-> "carve", cur |-> pb.m.reg[curr].next]
              ELSE LET m1 == [m EXCEPT !.rewind_it = m.reg[m.rewind_it].next]
                   IN  [m |-> m1, st |-> "carve", cur |-> m1.reg[curr].next]
         ELSE [m |-> m, st |-> "carve", cur |-> curr]

\* _sarena_malloc up to and including "curr_region = curr_region->_next":
\* the argument check, the choice of the region, the append or the advance.
\* st: "carve" (cur is the region to carve from), an error, or "fault".
sarena_malloc_select(m, size, r, p) ==
    IF (size > m.region_cap) \/ (size = 0)
    THEN [m |-> m, st |-> "SA_INVALID_ARG", cur |-> NULL]
    ELSE LET curr == IF m.rewind_it = NULL THEN m.tail ELSE m.rewind_it IN
         IF curr = NULL
         THEN [m |-> [m EXCEPT !.fault = "null_deref"], st |-> "fault", cur |-> NULL]
         ELSE IF curr \notin m.liveRec
         THEN [m |-> [m EXCEPT !.fault = "use_after_free"], st |-> "fault", cur |-> NULL]
         ELSE IF NotEnough(size, m.reg[curr])
         THEN IF m.rewind_it = NULL
              THEN LET pb == region_list_push_back(m, m.region_cap, r, p) IN
                   IF pb.err # "SA_SUCCESS"
                   THEN [m |-> pb.m, st |-> "SA_MALLOC_FAIL", cur |-> NULL]
                   ELSE [m |-> pb.m, st |-> "carve", cur |-> pb.m.reg[curr].next]
              ELSE LET nx == m.reg[m.rewind_it].next
                       m1 == [m EXCEPT !.rewind_it = IF nx = m.tail THEN NULL ELSE nx]
                   IN  [m |-> m1, st |-> "carve", cur |-> m1.reg[curr].next]
         ELSE [m |-> m, st |-> "carve", cur |-> curr]

\* A mutation of sarena_malloc_carve: the used capacity is not advanced.
sarena_malloc_carve_nobump(m, cur, size) ==
    [m |-> m, addr |-> [pool |-> m.reg[cur].mem_pool, off |-> m.reg[cur].used_cap]]

\* The end of _sarena_malloc:
\*   alloc_addr = curr_region->_mem_pool + curr_region->_used_cap;
\*   curr_region->_used_cap += size;
sarena_malloc_carve(m, cur, size) ==
    [m |-> [m EXCEPT !.reg[cur].used_cap = @ + size],
     addr |-> [pool |-> m.reg[cur].mem_pool, off |-> m.reg[cur].used_cap]]

\* _sarena_malloc as one call.  err is "UNSET" on the path that returns
\* alloc_addr: sarena.c writes *out_err on the two error paths only.
sarena_malloc_body(m, size, r, p) ==
    LET s == sarena_malloc_select(m, size, r, p) IN
    IF s.st = "carve"
    THEN IF s.cur = NULL
         THEN [m |-> [s.m EXCEPT !.fault = "null_deref"], addr |-> NullAddr, err |-> "fault"]
         ELSE LET c == sarena_malloc_carve(s.m, s.cur, size)
              IN  [m |-> c.m, addr |-> c.addr, err |-> "UNSET"]
    ELSE [m |-> s.m, addr |-> NullAddr, err |-> s.st]

\* sarena_malloc of sarena.c: SA_LOCK, _sarena_malloc, SA_UNLOCK, SA_RETURN.
\* u is what the uninitialised local "status" holds when _sarena_malloc does
\* not write it.  A fault leaves the mutex locked.
sarena_malloc(m, size, r, p, u) ==
    LET b == sarena_malloc_body([m EXCEPT !.lock = 1], size, r, p) IN
    IF b.err = "fault"
    THEN [m |-> b.m, addr |-> NullAddr, err |-> "fault", zeroed |-> FALSE]
    ELSE [m |-> [b.m EXCEPT !.lock = 0], addr |-> b.addr,
          err |-> IF b.err = "UNSET" THEN u ELSE b.err, zeroed |-> FALSE]

\* sarena_calloc of sarena.c: memset only if (status == SA_SUCCESS).
sarena_calloc(m, size, r, p, u) ==
    LET a == sarena_malloc(m, size, r, p, u) IN
    [a EXCEPT !.zeroed = (a.err = "SA_SUCCESS")]

\* sarena_malloc of sarena.h: no lock, no error code.
h_sarena_malloc(m, size, r, p) ==
    LET b == sarena_malloc_body(m, size, r, p) IN
    [m |-> b.m, addr |-> b.addr, err |-> IF b.err = "fault" THEN "fault" ELSE "NONE",
     zeroed |-> FALSE]

\* sarena_calloc of sarena.h: memset if (alloc_addr != NULL).
h_sarena_calloc(m, size, r, p) ==
    LET a == h_sarena_malloc(m, size, r, p) IN
    [a EXCEPT !.zeroed = (a.addr # NullAddr)]

\* for(; it != NULL; it = it->_next) it->_used_cap = 0;
RECURSIVE ZeroFrom(_, _)
ZeroFrom(m, it) ==
    IF it = NULL THEN m
    ELSE ZeroFrom([m EXCEPT !.reg[it].used_cap = 0], m.reg[it].next)

\* A mutation of sarena_rewind_body: rewind mode is entered with one region too.
sarena_rewind_body_always(m) ==
    IF m.count = 0 THEN m
    ELSE [ZeroFrom(m, m.head) EXCEPT !.rewind_it = m.head]

\* A mutation of sarena_rewind_body: the used capacities are zeroed but rewind
\* mode is never entered.
sarena_rewind_body_nocursor(m) ==
    IF m.count = 0 THEN m ELSE ZeroFrom(m, m.head)

\* A mutation of sarena_rewind_body: only the first region is emptied.
sarena_rewind_body_headonly(m) ==
    IF m.count = 0 THEN m
    ELSE LET z == [m EXCEPT !.reg[m.head].used_cap = 0] IN
         IF z.count > 1 THEN [z EXCEPT !.rewind_it = z.head] ELSE z

\* sarena_rewind between lock and unlock (both files)
sarena_rewind_body(m) ==
    IF m.count = 0 THEN m
    ELSE LET z == ZeroFrom(m, m.head) IN
         IF z.count > 1 THEN [z EXCEPT !.rewind_it = z.head] ELSE z

\* The state sarena_reset of sarena.c is in when it calls _sarena_init.
sarena_reset_pop(m) == PopWhile(m, 0)

\* A mutation of sarena_reset_body: the regions are popped and _sarena_init is
\* not run again.
sarena_reset_body_noinit(m, r, p, li) == sarena_reset_pop(m)

\* sarena_reset of sarena.c between lock and unlock: every region is popped,
\* then _sarena_init runs again (its error is dropped).
sarena_reset_body(m, r, p, li) ==
    LET q == sarena_reset_pop(m) IN sarena_init(q, q.region_cap, r, p, li).m

\* sarena_reset of sarena.h: regions are popped from the front until one is
\* left (the last one), which is emptied.
h_sarena_reset(m) ==
    LET q == PopWhile(m, 1) IN
    IF q.head = NULL
    THEN [q EXCEPT !.fault = "null_deref"]
    ELSE [q EXCEPT !.reg[q.head].used_cap = 0, !.rewind_it = NULL]

\* sarena_rewind of sarena.c: SA_LOCK, the body, SA_UNLOCK.
sarena_rewind(m) == [sarena_rewind_body([m EXCEPT !.lock = 1]) EXCEPT !.lock = 0]

\* sarena_reset of sarena.c: SA_LOCK, the body, SA_UNLOCK.
sarena_reset(m, r, p, li) ==
    [sarena_reset_body([m EXCEPT !.lock = 1], r, p, li) EXCEPT !.lock = 0]

(***************************************************************************)
(* History variables                                                       *)
(***************************************************************************)

NoOp ==
    [op |-> "none", size |-> 0, ok |-> FALSE, addr |-> NullAddr, err |-> "NONE",
     nm |-> 0, nf |-> 0, zeroed |-> FALSE]

RwOff == [on |-> FALSE, preCount |-> 0, cum |-> 0, waste |-> 0]

IdleThread ==
    [pc |-> "idle", op |-> "none", size |-> 0, cur |-> NULL, stale |-> FALSE,
     addr |-> NullAddr]

\* The region an allocation starts from: the rewind cursor, else the tail.
Active(m) == IF m.rewind_it = NULL THEN m.tail ELSE m.rewind_it

\* rw after an allocation that started in state m0 and returned addr: the bytes
\* handed out, and the bytes left unused in a region the allocation moved past.
RwAfterAlloc(m0, size, addr) ==
    IF ~rw.on \/ addr = NullAddr
    THEN rw
    ELSE LET curr == m0.reg[Active(m0)]
             moved == addr.pool # curr.mem_pool
         IN  [rw EXCEPT !.cum = @ + size,
                        !.waste = @ + IF moved THEN curr.total_cap - curr.used_cap ELSE 0]

\* The bytes of the block of size bytes at addr.
BytesOf(addr, size) == {<<addr.pool, addr.off + i>> : i \in 0..(size - 1)}

\* given and overlap after the block of size bytes at addr is returned.
Give(addr, size) ==
    /\ given' = given \cup BytesOf(addr, size)
    /\ overlap' = (overlap \/ (BytesOf(addr, size) \cap given # {}))
    /\ gsizes' = gsizes \cup {size}

Store(m) ==
    /\ arena' = m.arena
    /\ region_cap' = m.region_cap
    /\ head' = m.head
    /\ tail' = m.tail
    /\ count' = m.count
    /\ rewind_it' = m.rewind_it
    /\ reg' = m.reg
    /\ liveRec' = m.liveRec
    /\ livePool' = m.livePool
    /\ lock' = m.lock
    /\ fault' = m.fault

(***************************************************************************)
(* Spec: one caller, one action per public operation                       *)
(***************************************************************************)

Init ==
    /\ impl \in {"c", "h"}
    /\ arena = FALSE
    /\ region_cap = 0
    /\ head = NULL
    /\ tail = NULL
    /\ count = 0
    /\ rewind_it = NULL
    /\ reg = [r \in Records |-> DeadReg]
    /\ liveRec = {}
    /\ livePool = {}
    /\ lock = 0
    /\ fault = "none"
    /\ th = [t \in Threads |-> IdleThread]
    /\ lastOp = NoOp
    /\ pre = NoArena
    /\ carved = [q \in Pools |-> 0]
    /\ rw = RwOff
    /\ given = {}
    /\ overlap = FALSE
    /\ gsizes = {}
    /\ reclaimed = FALSE
    /\ denied = FALSE
    /\ heap = NRec

\* sarena_create(cap)
Create ==
    /\ fault = "none"
    /\ ~arena
    /\ \E cap \in Caps, a \in BOOLEAN :
       \E ans \in Answers(Mem, a /\ cap # 0) :
         LET res == IF impl = "c"
                    THEN sarena_create(Mem, cap, a, ans[1], ans[2], 0)
                    ELSE h_sarena_create(Mem, cap, a, ans[1], ans[2])
         IN  /\ Store(res.m)
             /\ lastOp' = [op |-> "create", size |-> cap, ok |-> res.ok, addr |-> NullAddr,
                           err |-> res.err, nm |-> res.m.nm, nf |-> res.m.nf,
                           zeroed |-> FALSE]
             /\ denied' = (~a \/ (cap # 0 /\ (ans[1] = NULL \/ ans[2] = NULL)))
    /\ pre' = Mem
    /\ carved' = [q \in Pools |-> 0]
    /\ rw' = RwOff
    /\ given' = {}
    /\ overlap' = FALSE
    /\ gsizes' = {}
    /\ reclaimed' = FALSE
    /\ UNCHANGED <<impl, th, heap>>

\* sarena_destroy(arena)
Destroy ==
    /\ fault = "none"
    /\ arena
    /\ LET m == sarena_destroy(Mem)
       IN  /\ Store(m)
           /\ lastOp' = [NoOp EXCEPT !.op = "destroy", !.nm = m.nm, !.nf = m.nf]
    /\ denied' = FALSE
    /\ pre' = Mem
    /\ carved' = [q \in Pools |-> 0]
    /\ rw' = RwOff
    /\ given' = {}
    /\ overlap' = FALSE
    /\ gsizes' = {}
    /\ reclaimed' = FALSE
    /\ UNCHANGED <<impl, th, heap>>

\* The part of an allocation action that does not depend on which of
\* sarena_malloc and sarena_calloc ran.
AllocDone(op, size, res) ==
    /\ Store(res.m)
    /\ lastOp' = [op |-> op, size |-> size, ok |-> (res.addr # NullAddr),
                  addr |-> res.addr, err |-> res.err, nm |-> res.m.nm, nf |-> res.m.nf,
                  zeroed |-> res.zeroed]
    /\ pre' = Mem
    /\ carved' = IF res.addr # NullAddr
                 THEN [carved EXCEPT ![res.addr.pool] = @ + size]
                 ELSE carved
    /\ rw' = RwAfterAlloc(Mem, size, res.addr)
    /\ IF res.addr # NullAddr THEN Give(res.addr, size) ELSE UNCHANGED <<given, overlap, gsizes>>
    /\ denied' = (denied \/ (res.m.nm > 0 /\ res.m.count = count))
    /\ UNCHANGED <<impl, th, reclaimed, heap>>

\* _sarena_malloc asks the provider for a region.
AsksProvider(m, size) == sarena_malloc_select(m, size, NULL, NULL).m.nm > 0

\* What the local "status" of sarena_malloc and sarena_calloc can hold when
\* _sarena_malloc returns: any value if _sarena_malloc did not write it.
StatusBefore(m, size, r, p) ==
    IF impl = "c" /\ sarena_malloc_body(m, size, r, p).err = "UNSET"
    THEN UninitErr ELSE {"SA_SUCCESS"}

\* sarena_malloc(arena, size)
Malloc ==
    /\ fault = "none"
    /\ arena
    /\ lock = 0
    /\ \E size \in Sizes :
       \E ans \in Answers(Mem, AsksProvider(Mem, size)) :
       \E u \in StatusBefore(Mem, size, ans[1], ans[2]) :
         AllocDone("malloc", size,
                   IF impl = "c" THEN sarena_malloc(Mem, size, ans[1], ans[2], u)
                                 ELSE h_sarena_malloc(Mem, size, ans[1], ans[2]))

\* sarena_calloc(arena, size)
Calloc ==
    /\ fault = "none"
    /\ arena
    /\ lock = 0
    /\ \E size \in Sizes :
       \E ans \in Answers(Mem, AsksProvider(Mem, size)) :
       \E u \in StatusBefore(Mem, size, ans[1], ans[2]) :
         AllocDone("calloc", size,
                   IF impl = "c" THEN sarena_calloc(Mem, size, ans[1], ans[2], u)
                                 ELSE h_sarena_calloc(Mem, size, ans[1], ans[2]))

\* sarena_rewind(arena)
Rewind ==
    /\ fault = "none"
    /\ arena
    /\ lock = 0
    /\ LET m == IF impl = "c" THEN sarena_rewind(Mem) ELSE sarena_rewind_body(Mem)
       IN  /\ Store(m)
           /\ lastOp' = [NoOp EXCEPT !.op = "rewind", !.nm = m.nm, !.nf = m.nf]
           /\ rw' = [on |-> TRUE, preCount |-> m.count, cum |-> 0, waste |-> 0]
    /\ pre' = Mem
    /\ carved' = [q \in Pools |-> 0]
    /\ given' = {}
    /\ reclaimed' = TRUE
    /\ UNCHANGED <<impl, th, overlap, gsizes, denied, heap>>

\* sarena_reset(arena).  The provider answers after the regions are popped.
Reset ==
    /\ fault = "none"
    /\ arena
    /\ lock = 0
    /\ \E ans \in Answers(sarena_reset_pop(Mem), impl = "c"),
          li \in MutexInitOutcomes([Mem EXCEPT !.lock = 1]) :
         LET m == IF impl = "c" THEN sarena_reset(Mem, ans[1], ans[2], li)
                                ELSE h_sarena_reset(Mem)
         IN  /\ Store(m)
             /\ lastOp' = [NoOp EXCEPT !.op = "reset", !.nm = m.nm, !.nf = m.nf]
             /\ denied' = (denied \/ (impl = "c" /\ (ans[1] = NULL \/ ans[2] = NULL)))
    /\ pre' = Mem
    /\ carved' = [q \in Pools |-> 0]
    /\ rw' = RwOff
    /\ given' = {}
    /\ reclaimed' = TRUE
    /\ UNCHANGED <<impl, th, overlap, gsizes, heap>>

Next == Create \/ Destroy \/ Malloc \/ Calloc \/ Rewind \/ Reset

Spec == Init /\ [][Next]_vars

(***************************************************************************)
(* SpecMT: NThreads threads on one arena, one action per step              *)
(*                                                                         *)
(* sarena.c: idle -> lock -> body -> (load -> store ->) unlock -> idle     *)
(* sarena.h: idle -> body -> (load -> store ->) idle                       *)
(* sarena_create and sarena_destroy are single-owner by contract: the      *)
(* arena exists from the start and is never destroyed.                     *)
(***************************************************************************)

InitMT ==
    /\ impl \in {"c", "h"}
    /\ \E cap \in 1..MaxCap :
         LET m == sarena_create(NoArena, cap, TRUE, 1, 1, 0).m
         IN  /\ arena = m.arena
             /\ region_cap = m.region_cap
             /\ head = m.head
             /\ tail = m.tail
             /\ count = m.count
             /\ rewind_it = m.rewind_it
             /\ reg = m.reg
             /\ liveRec = m.liveRec
             /\ livePool = m.livePool
             /\ lock = m.lock
             /\ fault = m.fault
    /\ th = [t \in Threads |-> IdleThread]
    /\ lastOp = NoOp
    /\ pre = NoArena
    /\ carved = [q \in Pools |-> 0]
    /\ rw = RwOff
    /\ given = {}
    /\ overlap = FALSE
    /\ gsizes = {}
    /\ reclaimed = FALSE
    /\ denied = FALSE
    /\ heap = NRecMT

histMT == <<impl, lastOp, pre, rw, carved, denied, heap>>

\* Where a thread goes when the body is done: SA_UNLOCK in sarena.c, the
\* return in sarena.h.
AfterBody(t) ==
    IF impl = "c" THEN [th[t] EXCEPT !.pc = "unlock"] ELSE IdleThread

\* The threads that hold a pointer to one of the records in freed.
MarkStale(freed) ==
    [t \in Threads |->
        IF th[t].pc \in {"load", "store"} /\ th[t].cur \in freed
        THEN [th[t] EXCEPT !.stale = TRUE] ELSE th[t]]

\* A thread calls sarena_malloc, sarena_calloc, sarena_rewind or sarena_reset.
Call(t) ==
    /\ fault = "none"
    /\ th[t].pc = "idle"
    /\ \E op \in {"malloc", "calloc", "rewind", "reset"}, size \in SizesMT \cup {0} :
         /\ (op \in {"rewind", "reset"}) = (size = 0)
         /\ th' = [th EXCEPT ![t] = [IdleThread EXCEPT
                                        !.pc = IF impl = "c" THEN "lock" ELSE "body",
                                        !.op = op, !.size = size]]
    /\ UNCHANGED <<progVars, histMT, given, overlap, gsizes, reclaimed>>

\* SA_LOCK(arena)
Acquire(t) ==
    /\ fault = "none"
    /\ th[t].pc = "lock"
    /\ lock = 0
    /\ lock' = 1
    /\ th' = [th EXCEPT ![t].pc = "body"]
    /\ UNCHANGED <<arena, region_cap, head, tail, count, rewind_it, reg, liveRec,
                   livePool, fault, histMT, given, overlap, gsizes, reclaimed>>

\* _sarena_malloc, lines up to "curr_region = curr_region->_next"
Select(t) ==
    /\ fault = "none"
    /\ th[t].pc = "body"
    /\ th[t].op \in {"malloc", "calloc"}
    /\ \E ans \in Answers(Mem, AsksProvider(Mem, th[t].size)) :
         LET s == sarena_malloc_select(Mem, th[t].size, ans[1], ans[2])
         IN  /\ Store(s.m)
             /\ th' = [th EXCEPT ![t] =
                          IF s.st = "carve" THEN [th[t] EXCEPT !.pc = "load", !.cur = s.cur]
                          ELSE IF s.st = "fault" THEN th[t]
                          ELSE AfterBody(t)]
    /\ UNCHANGED <<histMT, given, overlap, gsizes, reclaimed>>

\* alloc_addr = curr_region->_mem_pool + curr_region->_used_cap;
Load(t) ==
    /\ fault = "none"
    /\ th[t].pc = "load"
    /\ LET c == th[t].cur IN
       IF c = NULL
       THEN /\ fault' = "null_deref"
            /\ th' = th
       ELSE IF th[t].stale
       THEN /\ fault' = "use_after_free"
            /\ th' = th
       ELSE /\ fault' = fault
            /\ th' = [th EXCEPT ![t].pc = "store",
                                ![t].addr = [pool |-> reg[c].mem_pool,
                                             off |-> reg[c].used_cap]]
    /\ UNCHANGED <<arena, region_cap, head, tail, count, rewind_it, reg, liveRec,
                   livePool, lock, histMT, given, overlap, gsizes, reclaimed>>

\* curr_region->_used_cap += size; return alloc_addr;
\* The sum is taken from the value loaded for alloc_addr or from a second
\* load: without a lock the two can differ.  A block that ends beyond its
\* pool is recorded as the fault "out_of_bounds".
StoreUsed(t) ==
    /\ th[t].pc = "store"
    /\ fault = "none"
    /\ LET c == th[t].cur IN
       IF th[t].stale
       THEN /\ fault' = "use_after_free"
            /\ UNCHANGED <<reg, th, given, overlap, gsizes>>
       ELSE \E v \in {th[t].addr.off, reg[c].used_cap} :
              /\ reg' = [reg EXCEPT ![c].used_cap = v + th[t].size]
              /\ fault' = IF th[t].addr.off + th[t].size > reg[c].total_cap
                          THEN "out_of_bounds" ELSE fault
              /\ Give(th[t].addr, th[t].size)
              /\ th' = [th EXCEPT ![t] = AfterBody(t)]
    /\ UNCHANGED <<arena, region_cap, head, tail, count, rewind_it, liveRec,
                   livePool, lock, histMT, reclaimed>>

\* sarena_rewind between lock and unlock
RewindStep(t) ==
    /\ fault = "none"
    /\ th[t].pc = "body"
    /\ th[t].op = "rewind"
    /\ Store(sarena_rewind_body(Mem))
    /\ th' = [th EXCEPT ![t] = AfterBody(t)]
    /\ given' = {}
    /\ reclaimed' = TRUE
    /\ UNCHANGED <<histMT, overlap, gsizes>>

\* sarena_reset between lock and unlock
ResetStep(t) ==
    /\ fault = "none"
    /\ th[t].pc = "body"
    /\ th[t].op = "reset"
    /\ \E ans \in Answers(sarena_reset_pop(Mem), impl = "c"), li \in MutexInitOutcomes(Mem) :
         Store(IF impl = "c" THEN sarena_reset_body(Mem, ans[1], ans[2], li)
                             ELSE h_sarena_reset(Mem))
    /\ th' = [MarkStale(IF impl = "c" THEN liveRec ELSE liveRec \ {head})
                  EXCEPT ![t] = AfterBody(t)]
    /\ given' = {}
    /\ reclaimed' = TRUE
    /\ UNCHANGED <<histMT, overlap, gsizes>>

\* SA_UNLOCK(arena) and the return
Unlock(t) ==
    /\ fault = "none"
    /\ th[t].pc = "unlock"
    /\ lock' = 0
    /\ th' = [th EXCEPT ![t] = IdleThread]
    /\ UNCHANGED <<arena, region_cap, head, tail, count, rewind_it, reg, liveRec,
                   livePool, fault, histMT, given, overlap, gsizes, reclaimed>>

NextMT ==
    \E t \in Threads :
        \/ Call(t)
        \/ Acquire(t)
        \/ Select(t)
        \/ Load(t)
        \/ StoreUsed(t)
        \/ RewindStep(t)
        \/ ResetStep(t)
        \/ Unlock(t)

SpecMT == InitMT /\ [][NextMT]_vars

\* The steps of thread t once it has made its call.
Step(t) ==
    \/ Acquire(t)
    \/ Select(t)
    \/ Load(t)
    \/ StoreUsed(t)
    \/ RewindStep(t)
    \/ ResetStep(t)
    \/ Unlock(t)

\* SpecMT under fair scheduling: a thread that can take a step of its
\* operation eventually takes one (a thread need not make another call).
FairSpecMT == SpecMT /\ \A t \in Threads : WF_vars(Step(t))

(***************************************************************************)
(* Helpers of the properties                                               *)
(***************************************************************************)

AllocOps == {"malloc", "calloc"}

\* The regions reachable from head through _next, in order (at most n of them).
RECURSIVE Chain(_, _, _)
Chain(m, r, n) ==
    IF r = NULL \/ n = 0 THEN <<>> ELSE <<r>> \o Chain(m, m.reg[r].next, n - 1)
ListOf(m) == Chain(m, m.head, NRec + 1)
InList(m) == {ListOf(m)[i] : i \in 1..Len(ListOf(m))}

\* The last operation was an allocation with a size the arena must refuse.
InvalidAlloc ==
    /\ lastOp.op \in AllocOps
    /\ (lastOp.size = 0 \/ lastOp.size > pre.region_cap)

\* The last operation was an allocation of a valid size that returned NULL.
FailedAlloc ==
    /\ lastOp.op \in AllocOps
    /\ lastOp.size > 0
    /\ lastOp.size <= pre.region_cap
    /\ ~lastOp.ok
    /\ lastOp.err # "fault"

\* The error a call reports is e (sarena.h reports NULL only).
Reports(e) == IF impl = "c" THEN lastOp.err = e ELSE lastOp.err = "NONE"

Quiescent == \A t \in Threads : th[t].pc = "idle"

InsideBody(t) == th[t].pc \in {"body", "load", "store", "unlock"}

(***************************************************************************)
(* Properties                                                              *)
(***************************************************************************)

\* The last operation was an allocation that returned a block.
GoodAlloc == lastOp.op \in AllocOps /\ lastOp.ok

\* C1: a block returned by an allocation starts at the base of a pool of a
\* region of the arena plus the sum of the sizes of the blocks returned from
\* that pool since the last create, rewind or reset, it lies inside the pool,
\* and no byte is handed out twice between two reclamations.
C1_BumpOrder ==
    /\ ~overlap
    /\ GoodAlloc =>
          /\ lastOp.addr.off = carved[lastOp.addr.pool] - lastOp.size
          /\ \E r \in InList(Mem) :
                /\ reg[r].mem_pool = lastOp.addr.pool
                /\ lastOp.addr.off + lastOp.size <= reg[r].total_cap
                /\ reg[r].used_cap = carved[lastOp.addr.pool]

\* C1 witness: the second block of the second region.
C1_Witness ==
    /\ GoodAlloc
    /\ lastOp.op = "malloc"
    /\ ~reclaimed
    /\ count = 2
    /\ lastOp.addr.pool = reg[tail].mem_pool
    /\ lastOp.addr.off > 0
    /\ reg[head].used_cap > 0
    /\ fault = "none"

\* C2: as long as no rewind or reset has run and every block asked for has had
\* the same size, the blocks returned to the threads never overlap, and once
\* every call has returned, the bytes handed out from a region are exactly its
\* used capacity (no slot lost).
C2_DistinctBlocks ==
    (~reclaimed /\ Cardinality(gsizes) <= 1) =>
        /\ ~overlap
        /\ Quiescent =>
              \A r \in InList(Mem) :
                  {b[2] : b \in {x \in given : x[1] = reg[r].mem_pool}}
                      = 0..(reg[r].used_cap - 1)

\* C2 restricted to sarena.c, whose operations hold the mutex.
C2_DistinctBlocksLocked == (impl = "c") => C2_DistinctBlocks

\* C3: with sarena.c, at most one thread is between SA_LOCK and SA_UNLOCK.
C3_MutualExclusion ==
    (impl = "c") => Cardinality({t \in Threads : InsideBody(t)}) <= 1

\* C4: an allocation of size 0 or of a size above region_cap returns NULL with
\* SA_INVALID_ARG, writes no memory, calls neither malloc nor free, and leaves
\* the whole program state (regions, count, cursor, lock) as it was.
C4_InvalidSize ==
    InvalidAlloc =>
        /\ ~lastOp.ok
        /\ lastOp.addr = NullAddr
        /\ Reports("SA_INVALID_ARG")
        /\ ~lastOp.zeroed
        /\ lastOp.nm = 0
        /\ lastOp.nf = 0
        /\ fault = "none"
        /\ Mem = pre

\* C4 witness: a refused sarena_calloc of a size above region_cap in rewind mode.
C4_Witness ==
    /\ InvalidAlloc
    /\ lastOp.op = "calloc"
    /\ lastOp.size > region_cap
    /\ rewind_it # NULL
    /\ reg[rewind_it].used_cap > 0

\* C5: sarena_create(0) returns no arena, reports SA_INVALID_ARG, requests no
\* region from the provider and releases the arena record it obtained.
C5_CreateZero ==
    (lastOp.op = "create" /\ lastOp.size = 0) =>
        /\ ~lastOp.ok
        /\ ~arena
        /\ Reports("SA_INVALID_ARG")
        /\ lastOp.nm <= 1
        /\ lastOp.nf = lastOp.nm
        /\ liveRec = {}
        /\ livePool = {}

\* C6: an allocation of a valid size that returns NULL reports SA_MALLOC_FAIL,
\* asked the provider for memory, and leaves the whole program state as it was:
\* the regions, their order and used capacities, head, tail, count, the cursor,
\* and what is allocated from the provider.
C6_FailedAppend ==
    FailedAlloc =>
        /\ Reports("SA_MALLOC_FAIL")
        /\ lastOp.nm >= 1
        /\ lastOp.nf = lastOp.nm - 1
        /\ ~lastOp.zeroed
        /\ fault = "none"
        /\ Mem = pre

\* C6 witness: the pool of the second region could not be had.
C6_Witness ==
    /\ FailedAlloc
    /\ lastOp.nm = 2
    /\ count = 1
    /\ reg[tail].used_cap > 0

\* C7: after sarena_rewind every region of the list has used capacity 0, the
\* list is as it was (same regions, same order, same pools, nothing requested
\* from or released to the provider), and the cursor is the head if there is
\* more than one region and NULL if there is one.
C7_Rewind ==
    (lastOp.op = "rewind") =>
        /\ \A r \in InList(Mem) : reg[r].used_cap = 0
        /\ ListOf(Mem) = ListOf(pre)
        /\ count = pre.count
        /\ head = pre.head
        /\ tail = pre.tail
        /\ \A r \in Records : /\ reg[r].mem_pool = pre.reg[r].mem_pool
                              /\ reg[r].total_cap = pre.reg[r].total_cap
                              /\ reg[r].next = pre.reg[r].next
        /\ liveRec = pre.liveRec
        /\ livePool = pre.livePool
        /\ lastOp.nm = 0
        /\ lastOp.nf = 0
        /\ count > 1 => rewind_it = head
        /\ count = 1 => rewind_it = NULL
        /\ fault = "none"

\* C7 witness: a rewind of several used regions.
C7_Witness ==
    /\ lastOp.op = "rewind"
    /\ count > 1
    /\ pre.reg[pre.head].used_cap > 0
    /\ pre.reg[pre.tail].used_cap > 0

\* C8 as stated: after a rewind no region is appended as long as the sizes of
\* the allocations made since add up to no more than the capacity the arena
\* had at the rewind.
C8_CountFixedByCumulativeSize ==
    (rw.on /\ rw.cum <= rw.preCount * region_cap) => count = rw.preCount

\* C8 amended: after a rewind no region is appended as long as the sizes of the
\* allocations made since, plus the bytes left unused at the end of the regions
\* the allocator has moved past, add up to no more than the capacity the arena
\* had at the rewind.
C8_CountFixedByFootprint ==
    (rw.on /\ rw.cum + rw.waste <= rw.preCount * region_cap) => count = rw.preCount

\* C8 witness: allocations after a rewind of several regions that skipped bytes
\* and were served without an append.
C8_Witness ==
    /\ rw.on
    /\ rw.preCount > 1
    /\ rw.waste > 0
    /\ rw.cum + rw.waste = rw.preCount * region_cap
    /\ count = rw.preCount
    /\ fault = "none"

\* C9: after sarena_reset the arena is as after sarena_create(region_cap): one
\* region, unused, of region_cap bytes, and no cursor.
C9_ResetState ==
    (lastOp.op = "reset") =>
        /\ count = 1
        /\ head # NULL
        /\ head = tail
        /\ region_cap = pre.region_cap
        /\ reg[head].used_cap = 0
        /\ reg[head].total_cap = region_cap
        /\ reg[head].next = NULL
        /\ rewind_it = NULL

\* C10: sarena_reset keeps the first region: the head and its pool are the ones
\* from before, the regions after it are released (a record and a pool each),
\* and nothing is requested from the provider.
C10_ResetKeepsFirst ==
    (lastOp.op = "reset" /\ pre.count >= 1) =>
        /\ lastOp.nm = 0
        /\ lastOp.nf = 2 * (pre.count - 1)
        /\ head = pre.head
        /\ reg[head].mem_pool = pre.reg[pre.head].mem_pool

\* The last operation was the first allocation to return a block since a
\* sarena_rewind of an arena of more than one region.
FirstAfterRewind ==
    /\ GoodAlloc
    /\ rw.on
    /\ rw.preCount > 1
    /\ rw.cum = lastOp.size

\* C11: the first allocation that returns a block after a sarena_rewind of an
\* arena of more than one region returns the base (offset 0) of the pool of the
\* head region, asks the provider for nothing and leaves count and the list as
\* they were at the rewind.
C11_FirstAfterRewindAtHead ==
    FirstAfterRewind =>
        /\ lastOp.addr = [pool |-> reg[head].mem_pool, off |-> 0]
        /\ count = rw.preCount
        /\ lastOp.nm = 0
        /\ ListOf(Mem) = ListOf(pre)
        /\ reg[head].used_cap = lastOp.size

\* C11 witness: two regions filled, a rewind, then a block at the base of the
\* first region with count still 2.
C11_Witness ==
    /\ FirstAfterRewind
    /\ count = 2
    /\ lastOp.addr.off = 0
    /\ lastOp.addr.pool = reg[head].mem_pool
    /\ head # tail
    /\ fault = "none"

\* C12: sarena_calloc has zeroed the block exactly when it returns one: every
\* block it returns is zero-filled, and nothing is written when it returns NULL.
C12_CallocZeroes ==
    (lastOp.op = "calloc" /\ fault = "none") => (lastOp.zeroed <=> lastOp.ok)

\* The last operation was an allocation of a size the arena accepts.
ValidAlloc ==
    /\ lastOp.op \in AllocOps
    /\ lastOp.size > 0
    /\ lastOp.size <= pre.region_cap

\* C13: as long as the provider has not answered NULL since sarena_create, an
\* allocation of a size in 1 .. region_cap returns a block, whatever
\* allocations, rewinds and resets came before, and executes nothing undefined.
C13_AllocSucceeds ==
    (ValidAlloc /\ ~denied) => (lastOp.ok /\ lastOp.addr # NullAddr /\ fault = "none")

\* C13 witness: after a sarena_reset, an allocation that made the list grow
\* again, with a provider that never failed.
C13_Witness ==
    /\ ValidAlloc
    /\ lastOp.ok
    /\ ~denied
    /\ reclaimed
    /\ ~rw.on
    /\ count = 2
    /\ pre.count = 1
    /\ fault = "none"

\* C14: with sarena.c, a thread between SA_LOCK and SA_UNLOCK holds the mutex
\* all the way (the mutex it releases is the one it acquired), the mutex is
\* free whenever no operation is in progress, and under fair scheduling every
\* call that has acquired the mutex returns.
C14_LockDiscipline ==
    /\ []((impl = "c") => \A t \in Threads : InsideBody(t) => lock = 1)
    /\ [](Quiescent => lock = 0)
    /\ \A t \in Threads : (th[t].pc = "body") ~> (th[t].pc = "idle")

\* The buffers of the arena that are allocated from the provider in state m:
\* the region records, the pools and the arena record.
Live(m) == Cardinality(m.liveRec) + Cardinality(m.livePool) + (IF m.arena THEN 1 ELSE 0)

\* C15: sarena_destroy releases every buffer the arena holds, each with one
\* call of free and none twice: afterwards no region record, pool or arena
\* record is allocated, and the number of calls of free is the number of
\* buffers that were allocated.  No other operation frees a buffer that is
\* not allocated: the buffers allocated after an operation are those from
\* before, plus at most one per call of malloc, minus one per call of free.
C15_DestroyReleasesAll ==
    /\ (lastOp.op = "destroy") =>
          /\ ~arena
          /\ liveRec = {}
          /\ livePool = {}
          /\ lastOp.nm = 0
          /\ lastOp.nf = Live(pre)
          /\ Cardinality(pre.liveRec) = pre.count
          /\ Cardinality(pre.livePool) = pre.count
    /\ (lastOp.op # "none" /\ fault = "none") =>
          (Live(Mem) + lastOp.nf - Live(pre)) \in 0..lastOp.nm

\* C15 witness: the destruction of an arena of three regions in rewind mode.
C15_Witness ==
    /\ lastOp.op = "destroy"
    /\ pre.count = 3
    /\ pre.rewind_it # NULL
    /\ lastOp.nf = 7
    /\ Live(Mem) = 0

\* Every region of the list has 0 <= _used_cap <= _total_cap and
\* _total_cap == _region_cap.
RegionBounds ==
    \A r \in InList(Mem) :
        /\ 0 <= reg[r].used_cap
        /\ reg[r].used_cap <= reg[r].total_cap
        /\ reg[r].total_cap = region_cap

\* C16: in every reachable state every region of the list has
\* 0 <= _used_cap <= _total_cap and _total_cap == _region_cap, so that
\* _total_cap - _used_cap does not wrap.
C16_RegionBounds == arena => RegionBounds

\* C16 for sarena.c alone, whose operations take the mutex.
C16_RegionBoundsLocked == (impl = "c") => C16_RegionBounds

\* The last operation was an allocation that began in rewind mode and moved
\* from the cursor's region to the next one.
Advanced ==
    /\ GoodAlloc
    /\ pre.rewind_it # NULL
    /\ lastOp.addr.pool # pre.reg[pre.rewind_it].mem_pool

AllocInRewind ==
    /\ lastOp.op \in AllocOps
    /\ pre.rewind_it # NULL

\* C18: an allocation that begins in rewind mode calls neither malloc nor
\* free and leaves count and the list as they were; if its size is valid it
\* returns a block, taken from the pool of the cursor's region or from the pool
\* of the region after it.
C18_NoAppendInRewind ==
    AllocInRewind =>
        /\ fault = "none"
        /\ lastOp.nm = 0
        /\ lastOp.nf = 0
        /\ count = pre.count
        /\ ListOf(Mem) = ListOf(pre)
        /\ liveRec = pre.liveRec
        /\ livePool = pre.livePool
        /\ ValidAlloc => lastOp.ok
        /\ lastOp.ok =>
              lastOp.addr.pool \in {pre.reg[pre.rewind_it].mem_pool,
                                    pre.reg[pre.reg[pre.rewind_it].next].mem_pool}

\* C18 witness: the cursor's region was full and the block came from the next.
C18_Witness ==
    /\ AllocInRewind
    /\ lastOp.ok
    /\ pre.rewind_it = pre.head
    /\ pre.reg[pre.head].used_cap > 0
    /\ lastOp.addr.pool = pre.reg[pre.reg[pre.head].next].mem_pool
    /\ count = pre.count

\* The last operation was an allocation that returned a block of another
\* region than the one it began with.
Moved ==
    /\ GoodAlloc
    /\ pre.count > 0
    /\ lastOp.addr.pool # pre.reg[Active(pre)].mem_pool

\* C19: an allocation that moves on from the region it began with moves one
\* region on (to the region appended after the tail or to the next of the
\* cursor), appends at most one region, and finds that region unused: the block
\* starts at offset 0 and the used capacity afterwards is the size asked for,
\* which is within the total capacity.
C19_MovesOnceToFreeRegion ==
    Moved =>
        /\ reg[Active(pre)].next # NULL
        /\ lastOp.addr.pool = reg[reg[Active(pre)].next].mem_pool
        /\ lastOp.addr.off = 0
        /\ reg[reg[Active(pre)].next].used_cap = lastOp.size
        /\ lastOp.size <= reg[reg[Active(pre)].next].total_cap
        /\ count \in {pre.count, pre.count + 1}
        /\ lastOp.nm <= 2
        /\ (pre.rewind_it # NULL) => pre.reg[pre.reg[pre.rewind_it].next].used_cap = 0
        /\ fault = "none"

\* C19 witness: an advance of the cursor over a partly used region, in an arena
\* that had been filled before the rewind.
C19_Witness ==
    /\ Moved
    /\ pre.rewind_it # NULL
    /\ pre.reg[pre.rewind_it].used_cap > 0
    /\ pre.reg[pre.rewind_it].used_cap < pre.reg[pre.rewind_it].total_cap
    /\ lastOp.size = region_cap
    /\ reclaimed

\* s is a prefix of t.
IsPrefix(s, t) == Len(s) <= Len(t) /\ SubSeq(t, 1, Len(s)) = s

\* s is a suffix of t.
IsSuffix(s, t) == Len(s) <= Len(t) /\ SubSeq(t, Len(t) - Len(s) + 1, Len(t)) = s

C21_NeverEmpty ==
    (arena /\ lock = 0) =>
        /\ count >= 1
        /\ head # NULL
        /\ tail # NULL
        /\ fault # "null_deref"

\* C22: the sa_err that sarena_malloc and sarena_calloc of sarena.c deliver is
\* SA_SUCCESS exactly when a block is returned, and SA_INVALID_ARG or
\* SA_MALLOC_FAIL exactly when NULL is returned.
C22_DefiniteStatus ==
    (impl = "c" /\ lastOp.op \in AllocOps /\ fault = "none") =>
        /\ lastOp.ok <=> (lastOp.err = "SA_SUCCESS")
        /\ (~lastOp.ok) <=> (lastOp.err \in {"SA_INVALID_ARG", "SA_MALLOC_FAIL"})

====
